---- MODULE Spec2Model ----
(***************************************************************************)
(* Generation controller of the PXD panel (useGenerationController) with   *)
(* the backend client (withTimeout / requestJson / img2img / fetchProgress)*)
(* and the host calls it drives.  The controller's operations may be       *)
(* invoked in any order by its client; every `await` of the code is a      *)
(* point where other operations and callbacks may run.                     *)
(***************************************************************************)
EXTENDS Integers, Sequences, FiniteSets, TLC

\* ------------------------------------------------------------------ bounds
MaxStarts == 2      \* runGeneration / runBatch invocations that start a run
MaxItems  == 3      \* items ever enqueued by addToBatch
MaxImages == 2      \* images in one backend response
MaxPolls  == 1      \* progress queries outstanding at the same time

Runs    == 1..MaxStarts
ItemIds == 1..MaxItems

\* ------------------------------------------------------------- value sets
\* progress is kept in percent: 0..100 is the interval [0,1].
ProgressValues == {0, 50, 150}
\* what a progress query can come back with: a numeric progress field, a body
\* without a numeric field, or null (request failed or timed out).
PollAnswers == [kind : {"number"}, value : ProgressValues]
                 \cup {[kind |-> "malformed", value |-> 0], [kind |-> "null", value |-> 0]}

Msg(k, i) == [kind |-> k, item |-> i]
NoError   == Msg("null", 0)
Toast(t, k, i) == [type |-> t, kind |-> k, item |-> i]
NoToast   == Toast("none", "null", 0)

VARIABLES
    batchItems,     \* useState<BatchItem[]>: sequence of [id]
    nextId,         \* generateId(): ids handed out so far + 1
    status,         \* GenerationStatus
    error,          \* error message or NoError
    progress,       \* progress in percent
    toast,          \* ToastState or NoToast
    lastImages,     \* number of images of the last successful runGeneration
    pollingRef,     \* pollingRef.current: interval handle, 0 for null
    timers,         \* live interval timers: set of [h, owner]
    pollsInFlight,  \* fetchProgress calls issued by ticks and not yet answered
    started,        \* runs started so far
    run,            \* per run: the async function's position and locals
    req,            \* per run: its generate request (fetch, timer, race outcome)
    layers,         \* document: item id of every placed result layer (0: single shot)
    closed,         \* ids of the items closeDocument was invoked for
    baseURL,        \* createPxdClient's baseURL: "" when no endpoint is configured
    calc            \* a part studied on its own (a pure helper's call, the form, the
                    \* option catalog, one result import): its inputs, stage and result

vars == <<batchItems, nextId, status, error, progress, toast, lastImages, pollingRef,
          timers, pollsInFlight, started, run, req, layers, closed, baseURL, calc>>

\* the endpoints a client is created for: none, or a backend address.
Endpoints == {"", "http://sd"}

NoCalc == [op |-> "none", stage |-> "idle"]
NoRun == [kind |-> "none", pc |-> "idle", items |-> <<>>, idx |-> 0, n |-> 0, k |-> 0]
NoReq == [fetch |-> "none", timer |-> "none", outcome |-> "none"]

Init ==
    /\ batchItems = <<>>
    /\ nextId = 1
    /\ status = "idle"
    /\ error = NoError
    /\ progress = 0
    /\ toast = NoToast
    /\ lastImages = 0
    /\ pollingRef = 0
    /\ timers = {}
    /\ pollsInFlight = 0
    /\ started = 0
    /\ run = [r \in Runs |-> NoRun]
    /\ req = [r \in Runs |-> NoReq]
    /\ layers = {}
    /\ closed = {}
    /\ baseURL \in Endpoints
    /\ calc = NoCalc

\* ------------------------------------------------------- helper operators
\* stopPolling: clearInterval(pollingRef.current) when the ref is set.
stopPolling(ts, ref) == IF ref # 0 THEN {t \in ts : t.h # ref} ELSE ts

\* window.setInterval returns a handle no live timer has.
FreshHandle(ts) == CHOOSE h \in 1..(Cardinality(ts) + 1) : \A t \in ts : t.h # h

\* pollProgress without the leading stopPolling() call.
pollProgress_NoStop(ts, ref, r) ==
    LET h == FreshHandle(ts)
    IN  [timers |-> ts \cup {[h |-> h, owner |-> r]}, ref |-> h]

\* pollProgress: stopPolling(), then pollingRef.current = setInterval(...).
pollProgress(ts, ref, r) ==
    LET kept == stopPolling(ts, ref)
        h    == FreshHandle(kept)
    IN  [timers |-> kept \cup {[h |-> h, owner |-> r]}, ref |-> h]

\* Promise.race where the settlement that arrives last wins.
Race_LastWins(outcome, event) == event

\* Promise.race([promise, timeout]): the first settlement decides, later ones
\* are ignored.
Race(outcome, event) == IF outcome = "none" THEN event ELSE outcome

\* withTimeout's finally: window.clearTimeout(timer).
TimerAfterSettle(timer) == IF timer = "armed" THEN "cleared" ELSE timer

\* the interval callback: setProgress only for a numeric progress field.
ApplyPoll(p, a) == IF a.kind = "number" THEN a.value ELSE p

\* a failure path that drops the items completed before the failing one.
BatchQueueOnFailure_DropDone(q, items, idx) ==
    LET done == {items[i].id : i \in 1..(idx - 1)}
        Keep(it) == it.id \notin done
    IN  SelectSeq(q, Keep)

\* a failure path that clears the queue like the success path does.
BatchQueueOnFailure_Clear(q, items, idx) == <<>>

\* runBatch's catch/finally never call setBatchItems: the queue is left as it is.
BatchQueueOnFailure(q, items, idx) == q

\* ids of the queue q.
QueuedIds(q) == {q[i].id : i \in 1..Len(q)}

\* the items among `ids` closeDocument is called for when they leave the queue
\* q: those that are queued (every modelled item records a scratch triple).
CloseOnLeave(q, ids) == QueuedIds(q) \cap ids

CurItem(r) == IF run[r].kind = "batch" THEN run[r].items[run[r].idx].id ELSE 0

InFlight == {r \in Runs : run[r].pc \notin {"idle", "done"}}

\* ------------------------------------------------- shared pieces of the runs
\* a catch block that sets the status and the toast but not the error message.
Fail_NoSetError(r, m) ==
    /\ timers' = stopPolling(timers, pollingRef)
    /\ pollingRef' = 0
    /\ status' = "error"
    /\ toast' = Toast("error", m.kind, m.item)
    /\ progress' = IF run[r].kind = "gen" THEN 0 ELSE progress
    /\ run' = [run EXCEPT ![r] = [NoRun EXCEPT !.pc = "done"]]
    /\ UNCHANGED <<error, batchItems>>

\* catch + finally of runGeneration / runBatch for run r failing with message m.
Fail(r, m) ==
    /\ timers' = stopPolling(timers, pollingRef)
    /\ pollingRef' = 0
    /\ status' = "error"
    /\ error' = m
    /\ toast' = Toast("error", m.kind, m.item)
    /\ progress' = IF run[r].kind = "gen" THEN 0 ELSE progress
    /\ batchItems' = IF run[r].kind = "batch"
                       THEN BatchQueueOnFailure(batchItems, run[r].items, run[r].idx)
                       ELSE batchItems
    /\ run' = [run EXCEPT ![r] = [NoRun EXCEPT !.pc = "done"]]

\* makeUrl that builds the address without testing baseURL.
makeUrl_NoCheck(base) == base

\* makeUrl: throws when baseURL is empty, otherwise the address.
makeUrl(base) == IF base = "" THEN "throw" ELSE base

\* await pollProgress(); client.img2img(params): the poller is started, then
\* fetchJson builds the address: when makeUrl throws, img2img rejects before any
\* fetch and before any timer callback can run, and the catch stops the poller
\* just started; otherwise the generate request is issued with its timer.
StartRequest(r) ==
    LET p == pollProgress(timers, pollingRef, r)
    IN  IF makeUrl(baseURL) = "throw"
          THEN /\ timers' = stopPolling(p.timers, p.ref)
               /\ pollingRef' = 0
               /\ status' = "error"
               /\ error' = Msg("config", 0)
               /\ toast' = Toast("error", "config", 0)
               /\ progress' = IF run[r].kind = "gen" THEN 0 ELSE progress
               /\ batchItems' = IF run[r].kind = "batch"
                                  THEN BatchQueueOnFailure(batchItems, run[r].items, run[r].idx)
                                  ELSE batchItems
               /\ run' = [run EXCEPT ![r] = [NoRun EXCEPT !.pc = "done"]]
               /\ UNCHANGED req
          ELSE /\ timers' = p.timers
               /\ pollingRef' = p.ref
               /\ run' = [run EXCEPT ![r].pc = "req"]
               /\ req' = [req EXCEPT ![r] = [fetch |-> "pending", timer |-> "armed",
                                             outcome |-> "none"]]
               /\ UNCHANGED <<batchItems, status, error, progress, toast>>

\* the request of run r settles with `event` (withTimeout's race).
Settle(r, event, fetchAfter) ==
    req' = [req EXCEPT ![r] = [fetch   |-> fetchAfter,
                               timer   |-> IF event = "timeout" THEN "fired"
                                           ELSE IF @.outcome = "none" THEN TimerAfterSettle(@.timer)
                                           ELSE @.timer,
                               outcome |-> Race(@.outcome, event)]]

\* ---------------------------------------------------------- runGeneration
\* runGeneration up to its first await (getSelectionPixels).
RunGeneration ==
    /\ UNCHANGED <<closed, baseURL, calc>>
    /\ started < MaxStarts
    /\ started' = started + 1
    /\ status' = "running"
    /\ error' = NoError
    /\ progress' = 0
    /\ toast' = NoToast
    /\ run' = [run EXCEPT ![started + 1] = [NoRun EXCEPT !.kind = "gen", !.pc = "sel"]]
    /\ UNCHANGED <<batchItems, nextId, lastImages, pollingRef, timers, pollsInFlight,
                   req, layers>>

\* runGeneration that issues the generate request before looking at what
\* getSelectionPixels returned.
GenSelection_RequestFirst(r) ==
    /\ UNCHANGED <<closed, baseURL, calc>>
    /\ run[r].kind = "gen" /\ run[r].pc = "sel"
    /\ \E sel \in BOOLEAN :
         IF sel
           THEN StartRequest(r)
           ELSE /\ Fail(r, Msg("noSelection", 0))
                /\ req' = [req EXCEPT ![r] = [fetch |-> "pending", timer |-> "armed",
                                              outcome |-> "none"]]
    /\ UNCHANGED <<nextId, lastImages, pollsInFlight, started, layers>>

\* getSelectionPixels answered: no selection throws, otherwise the poller is
\* started and the generate request issued.
GenSelection(r) ==
    /\ UNCHANGED <<closed, baseURL, calc>>
    /\ run[r].kind = "gen" /\ run[r].pc = "sel"
    /\ \E sel \in BOOLEAN :
         IF sel
           THEN StartRequest(r)
           ELSE /\ Fail(r, Msg("noSelection", 0))
                /\ UNCHANGED req
    /\ UNCHANGED <<nextId, lastImages, pollsInFlight, started, layers>>

\* --------------------------------------------------------------- runBatch
\* runBatch on an empty queue that sets the status before testing the queue.
RunBatchEmpty_StatusFirst ==
    /\ UNCHANGED <<closed, baseURL, calc>>
    /\ batchItems = <<>>
    /\ status' = "running"
    /\ error' = NoError
    /\ toast' = Toast("warning", "emptyBatch", 0)
    /\ UNCHANGED <<batchItems, nextId, progress, lastImages, pollingRef, timers,
                   pollsInFlight, started, run, req, layers>>

\* runBatch on an empty queue: a warning notice and return.
RunBatchEmpty ==
    /\ UNCHANGED <<closed, baseURL, calc>>
    /\ batchItems = <<>>
    /\ toast' = Toast("warning", "emptyBatch", 0)
    /\ UNCHANGED <<batchItems, nextId, status, error, progress, lastImages, pollingRef,
                   timers, pollsInFlight, started, run, req, layers>>

\* runBatch on a non-empty queue up to the first await of the first item; the
\* loop iterates the batchItems array of the invocation.
RunBatchStart ==
    /\ UNCHANGED <<closed, baseURL, calc>>
    /\ batchItems # <<>>
    /\ started < MaxStarts
    /\ started' = started + 1
    /\ status' = "running"
    /\ error' = NoError
    /\ run' = [run EXCEPT ![started + 1] =
                 [NoRun EXCEPT !.kind = "batch", !.items = batchItems, !.idx = 1,
                               !.pc = "prep"]]
    /\ UNCHANGED <<batchItems, nextId, progress, toast, lastImages, pollingRef, timers,
                   pollsInFlight, req, layers>>

RunBatch == RunBatchEmpty \/ RunBatchStart

\* switchToDocument and setSelectionBounds answered (their failures are logged
\* and ignored): the poller is started and the item's generate request issued.
BatchPrepare(r) ==
    /\ UNCHANGED <<closed, baseURL, calc>>
    /\ run[r].kind = "batch" /\ run[r].pc = "prep"
    /\ StartRequest(r)
    /\ UNCHANGED <<nextId, lastImages, pollsInFlight, started, layers>>

\* ------------------------------------------------ the generate request
\* fetch resolves with response headers: 2xx goes on to read the body, any other
\* status throws "Request failed".  After a timeout the response is ignored.
FetchResolves(r) ==
    /\ UNCHANGED <<closed, baseURL, calc>>
    /\ req[r].fetch = "pending"
    /\ Settle(r, "response", "resolved")
    /\ IF req[r].outcome = "none"
         THEN \E ok \in BOOLEAN :
                IF ok
                  THEN /\ run' = [run EXCEPT ![r].pc = "body"]
                       /\ UNCHANGED <<batchItems, status, error, progress, toast,
                                      pollingRef, timers>>
                  ELSE Fail(r, Msg("http", 0))
         ELSE UNCHANGED <<batchItems, status, error, progress, toast, pollingRef,
                          timers, run>>
    /\ UNCHANGED <<nextId, lastImages, pollsInFlight, started, layers>>

\* fetch rejects (network error).
FetchRejects(r) ==
    /\ UNCHANGED <<closed, baseURL, calc>>
    /\ req[r].fetch = "pending"
    /\ Settle(r, "neterr", "rejected")
    /\ IF req[r].outcome = "none"
         THEN Fail(r, Msg("network", 0))
         ELSE UNCHANGED <<batchItems, status, error, progress, toast, pollingRef,
                          timers, run>>
    /\ UNCHANGED <<nextId, lastImages, pollsInFlight, started, layers>>

\* the setTimeout callback of withTimeout runs and rejects.
TimerFires(r) ==
    /\ UNCHANGED <<closed, baseURL, calc>>
    /\ req[r].timer = "armed"
    /\ Settle(r, "timeout", req[r].fetch)
    /\ IF req[r].outcome = "none"
         THEN Fail(r, Msg("timeout", 0))
         ELSE UNCHANGED <<batchItems, status, error, progress, toast, pollingRef,
                          timers, run>>
    /\ UNCHANGED <<nextId, lastImages, pollsInFlight, started, layers>>

\* response.json() answered: it rejects (body is not JSON), or gives n images:
\* stopPolling, then (runGeneration only) setProgress(1); zero images throws.
BodyArrives(r) ==
    /\ UNCHANGED <<closed, baseURL, calc>>
    /\ run[r].pc = "body"
    /\ \/ Fail(r, Msg("parse", 0))
       \/ \E n \in 0..MaxImages :
            IF n = 0
              THEN Fail(r, IF run[r].kind = "gen" THEN Msg("noImages", 0)
                           ELSE Msg("batchNoImages", CurItem(r)))
              ELSE /\ timers' = stopPolling(timers, pollingRef)
                   /\ pollingRef' = 0
                   /\ progress' = IF run[r].kind = "gen" THEN 100 ELSE progress
                   /\ run' = [run EXCEPT ![r] = [@ EXCEPT !.pc = "place", !.n = n, !.k = 0]]
                   /\ UNCHANGED <<batchItems, status, error, toast>>
    /\ UNCHANGED <<nextId, lastImages, pollsInFlight, started, req, layers>>

\* ------------------------------------------------------- result import
\* one placeImageIntoSelection call answered: it returns, or throws before or
\* after the layer was placed.
Place(r) ==
    /\ UNCHANGED <<closed, baseURL, calc>>
    /\ run[r].pc = "place"
    /\ \E res \in {"ok", "throwBefore", "throwAfter"} :
         /\ layers' = IF res = "throwBefore" THEN layers ELSE layers \cup {CurItem(r)}
         /\ IF res = "ok"
              THEN /\ run' = [run EXCEPT ![r] =
                                [@ EXCEPT !.k = @ + 1,
                                          !.pc = IF run[r].k + 1 < run[r].n THEN "place"
                                                 ELSE "top"]]
                   /\ UNCHANGED <<batchItems, status, error, progress, toast,
                                  pollingRef, timers>>
              ELSE Fail(r, Msg("host", 0))
    /\ UNCHANGED <<nextId, lastImages, pollsInFlight, started, req>>

\* success path of runGeneration after moveActiveLayerToTop, with its finally.
GenSucceed(r) ==
    /\ lastImages' = run[r].n
    /\ status' = "success"
    /\ toast' = Toast("success", "genOk", 0)
    /\ timers' = stopPolling(timers, pollingRef)
    /\ pollingRef' = 0
    /\ progress' = 0
    /\ run' = [run EXCEPT ![r] = [NoRun EXCEPT !.pc = "done"]]
    /\ UNCHANGED <<batchItems, error>>

\* runBatch goes on with the next item of its array.
BatchNext(r) ==
    /\ run' = [run EXCEPT ![r] = [@ EXCEPT !.idx = @ + 1, !.n = 0, !.k = 0, !.pc = "prep"]]
    /\ UNCHANGED <<batchItems, status, error, progress, toast, lastImages, pollingRef, timers>>

\* runBatch after its last item: setBatchItems([]), success, finally.
BatchSucceed(r) ==
    /\ batchItems' = <<>>
    /\ status' = "success"
    /\ toast' = Toast("success", "batchOk", 0)
    /\ timers' = stopPolling(timers, pollingRef)
    /\ pollingRef' = 0
    /\ run' = [run EXCEPT ![r] = [NoRun EXCEPT !.pc = "done"]]
    /\ UNCHANGED <<error, progress, lastImages>>

\* groupLayers (rejection caught and logged) and moveActiveLayerToTop (rejection
\* not caught at the call) answered.
Top(r) ==
    /\ UNCHANGED <<closed, baseURL, calc>>
    /\ run[r].pc = "top"
    /\ \E ok \in BOOLEAN :
         IF ~ok
           THEN Fail(r, Msg("host", 0)) /\ UNCHANGED lastImages
           ELSE IF run[r].kind = "gen" THEN GenSucceed(r)
           ELSE IF run[r].idx < Len(run[r].items) THEN BatchNext(r)
           ELSE BatchSucceed(r)
    /\ UNCHANGED <<nextId, pollsInFlight, started, req, layers>>

\* ---------------------------------------------------------- batch queue
\* addToBatch: no selection gives a warning, otherwise the item is appended with
\* the scratch document/layer triple onBatchAddLayer returned.  (An item added
\* while onBatchAddLayer fails owns no scratch document and is not modelled.)
AddToBatch ==
    /\ nextId <= MaxItems
    /\ \E sel \in BOOLEAN :
         IF ~sel
           THEN /\ toast' = Toast("warning", "noSelection", 0)
                /\ UNCHANGED <<batchItems, nextId>>
           ELSE /\ batchItems' = Append(batchItems, [id |-> nextId])
                /\ nextId' = nextId + 1
                /\ toast' = Toast("success", "added", 0)
    /\ UNCHANGED <<status, error, progress, lastImages, pollingRef, timers, pollsInFlight,
                   started, run, req, layers, closed, baseURL, calc>>

\* removeFromBatch(id): closeDocument is called (its rejection logged) when the
\* item is queued and owns a scratch triple; the item is filtered out.
RemoveFromBatch(id) ==
    /\ id < nextId
    /\ LET Keep(it) == it.id # id
       IN  batchItems' = SelectSeq(batchItems, Keep)
    /\ closed' = closed \cup CloseOnLeave(batchItems, {id})
    /\ UNCHANGED <<baseURL, calc>>
    /\ UNCHANGED <<nextId, status, error, progress, toast, lastImages, pollingRef, timers,
                   pollsInFlight, started, run, req, layers>>

\* clearBatch: empties the queue and calls closeDocument (rejections logged)
\* for every item that owns a scratch triple.
ClearBatch ==
    /\ batchItems' = <<>>
    /\ closed' = closed \cup CloseOnLeave(batchItems, ItemIds)
    /\ UNCHANGED <<baseURL, calc>>
    /\ toast' = Toast("info", "cleared", 0)
    /\ UNCHANGED <<nextId, status, error, progress, lastImages, pollingRef, timers,
                   pollsInFlight, started, run, req, layers>>

\* -------------------------------------------------------- progress poller
\* a live interval timer ticks: one fetchProgress call is issued.
PollTick ==
    /\ UNCHANGED <<closed, baseURL, calc>>
    /\ timers # {}
    /\ pollsInFlight < MaxPolls
    /\ pollsInFlight' = pollsInFlight + 1
    /\ UNCHANGED <<batchItems, nextId, status, error, progress, toast, lastImages,
                   pollingRef, timers, started, run, req, layers>>

\* a fetchProgress call answers; the callback does not look at pollingRef.
PollAnswer ==
    /\ UNCHANGED <<closed, baseURL, calc>>
    /\ pollsInFlight > 0
    /\ pollsInFlight' = pollsInFlight - 1
    /\ \E a \in PollAnswers : progress' = ApplyPoll(progress, a)
    /\ UNCHANGED <<batchItems, nextId, status, error, toast, lastImages, pollingRef,
                   timers, started, run, req, layers>>

\* ------------------------------------------------------------ specification
Next ==
    \/ RunGeneration
    \/ RunBatch
    \/ AddToBatch
    \/ ClearBatch
    \/ PollTick
    \/ PollAnswer
    \/ \E id \in ItemIds : RemoveFromBatch(id)
    \/ \E r \in Runs : GenSelection(r)
    \/ \E r \in Runs : BatchPrepare(r)
    \/ \E r \in Runs : FetchResolves(r)
    \/ \E r \in Runs : FetchRejects(r)
    \/ \E r \in Runs : TimerFires(r)
    \/ \E r \in Runs : BodyArrives(r)
    \/ \E r \in Runs : Place(r)
    \/ \E r \in Runs : Top(r)

Spec == Init /\ [][Next]_vars

\* ======================================================= numeric helpers
\* A JavaScript number: a finite value, or a non-finite one (NaN, undefined).
Fin(v)    == [fin |-> TRUE, v |-> v]
NonFinite == [fin |-> FALSE, v |-> 0]

Max(a, b) == IF a >= b THEN a ELSE b
Min(a, b) == IF a <= b THEN a ELSE b

\* clampNumber(value, min, max) = Math.min(max, Math.max(min, value)).
clampNumber(value, min, max) == Min(max, Max(min, value))

\* Math.round(n / d) for d > 0: floor(n / d + 1/2).
RoundDiv(n, d) == (2 * n + d) \div (2 * d)

\* -------------------------------------------------- request timeout budget
DEFAULT_TIMEOUT     == 15000
BASE_TIMEOUT_BUDGET == 20000
TIMEOUT_MARGIN      == 5000
DEFAULT_MAX_TIMEOUT == 120000
STEP_REFERENCE      == 20
BASE_RESOLUTION     == 512 * 512

\* Widths and heights are multiples of SizeStep pixels and multipliers multiples
\* of 1/MultiplierDen, so that every product below is exact and stays within
\* 32 bits.
SizeStep      == 128
MultiplierDen == 4
\* factor cancelled between (BASE_TIMEOUT_BUDGET + TIMEOUT_MARGIN) and the
\* denominator STEP_REFERENCE * MultiplierDen * (BASE_RESOLUTION / SizeStep^2).
Cancel        == 40

\* a variant of the step scale that does not clamp from above but wraps.
StepNum_Wrapping(steps) ==
    IF steps > 5 * STEP_REFERENCE THEN STEP_REFERENCE \div 2
    ELSE Max(steps, STEP_REFERENCE \div 2)

\* computeDynamicTimeout: stepScale * STEP_REFERENCE.
StepNum(steps) == clampNumber(steps, STEP_REFERENCE \div 2, 5 * STEP_REFERENCE)

\* a variant of the guard that only tests finiteness.
InvalidTimeoutInput_FiniteOnly(steps, width, height) ==
    ~steps.fin \/ ~width.fin \/ ~height.fin

\* toMilliseconds(seconds, fallbackMs) of createPxdClient.
toMilliseconds(seconds, fallbackMs) ==
    IF ~seconds.fin THEN fallbackMs ELSE Max(0, seconds.v * 1000)

\* createPxdClient: the timeoutOptions built from the settings.  The multiplier
\* is in units of 1/MultiplierDen; clampNumber of a NaN stays NaN.
timeoutOptions(settings) ==
    LET minMs == Max(5000, toMilliseconds(settings.timeoutMinSeconds, BASE_TIMEOUT_BUDGET))
        maxMs == Max(minMs, toMilliseconds(settings.timeoutMaxSeconds, DEFAULT_MAX_TIMEOUT))
    IN  [multiplier |-> IF settings.timeoutMultiplier.fin
                          THEN Fin(clampNumber(settings.timeoutMultiplier.v,
                                               MultiplierDen \div 4, 10 * MultiplierDen))
                          ELSE NonFinite,
         minMs |-> Fin(minMs),
         maxMs |-> Fin(maxMs)]

\* computeDynamicTimeout: the guard that selects the fixed fallback.
InvalidTimeoutInput(steps, width, height) ==
    \/ ~steps.fin \/ ~width.fin \/ ~height.fin
    \/ steps.v <= 0 \/ width.v <= 0 \/ height.v <= 0

\* computeDynamicTimeout: multiplier, in units of 1/MultiplierDen.
ResolvedMultiplier(options) ==
    IF options.multiplier.fin
      THEN clampNumber(options.multiplier.v, MultiplierDen \div 4, 10 * MultiplierDen)
      ELSE MultiplierDen

\* computeDynamicTimeout: maxMsCandidate, minMs and maxMs.
MaxMsCandidate(options) ==
    IF options.maxMs.fin THEN Max(BASE_TIMEOUT_BUDGET, options.maxMs.v)
    ELSE DEFAULT_MAX_TIMEOUT

ResolvedMinMs(options) ==
    IF options.minMs.fin THEN clampNumber(options.minMs.v, 5000, MaxMsCandidate(options))
    ELSE BASE_TIMEOUT_BUDGET

ResolvedMaxMs(options) == Max(ResolvedMinMs(options), MaxMsCandidate(options))

\* computeDynamicTimeout: budget = (BASE_TIMEOUT_BUDGET + TIMEOUT_MARGIN) *
\* areaScale * stepScale * multiplier, as the fraction BudgetNum / BudgetDen.
\* areaScale = max(1, width*height / BASE_RESOLUTION), stepScale =
\* clamp(steps / STEP_REFERENCE, 0.5, 5).
AreaCells(width, height) == (width \div SizeStep) * (height \div SizeStep)
BaseCells == BASE_RESOLUTION \div (SizeStep * SizeStep)
BudgetDen == (BaseCells * STEP_REFERENCE * MultiplierDen) \div Cancel

\* a variant of the budget that leaves TIMEOUT_MARGIN out.
BudgetNum_NoMargin(steps, width, height, multiplier) ==
    (BASE_TIMEOUT_BUDGET \div Cancel)
      * Max(BaseCells, AreaCells(width, height))
      * StepNum(steps)
      * multiplier

BudgetNum(steps, width, height, multiplier) ==
    ((BASE_TIMEOUT_BUDGET + TIMEOUT_MARGIN) \div Cancel)
      * Max(BaseCells, AreaCells(width, height))
      * StepNum(steps)
      * multiplier

\* Math.round(clampNumber(budget, minMs, maxMs)) for the budget num / den.
RoundClamp(num, den, minMs, maxMs) ==
    IF num <= minMs * den THEN Min(maxMs, minMs)
    ELSE IF num >= maxMs * den THEN maxMs
    ELSE RoundDiv(num, den)

\* computeDynamicTimeout(steps, width, height, options).
computeDynamicTimeout(steps, width, height, options) ==
    IF InvalidTimeoutInput(steps, width, height)
      THEN Max(DEFAULT_TIMEOUT, BASE_TIMEOUT_BUDGET)
      ELSE RoundClamp(BudgetNum(steps.v, width.v, height.v, ResolvedMultiplier(options)),
                      BudgetDen,
                      ResolvedMinMs(options), ResolvedMaxMs(options))

\* ------------------------------------------------------ override size
MIN_OVERRIDE_SIDE == 32
MIN_RESOLUTION    == 128
MAX_RESOLUTION    == 2048

\* computeOverrideSize(width, height, target).  scale = Math.min(target / width,
\* target / height) is target / max(width, height).
computeOverrideSize(width, height, target) ==
    IF width <= target /\ height <= target
      THEN [width |-> width, height |-> height]
      ELSE LET longest == Max(width, height)
           IN  [width  |-> Max(MIN_OVERRIDE_SIDE, RoundDiv(width * target, longest)),
                height |-> Max(MIN_OVERRIDE_SIDE, RoundDiv(height * target, longest))]

\* -------------------------------------------------------- mask feather
\* MASK_FEATHER_RATIO (0.08) in hundredths; feather overrides in tenths.
MASK_FEATHER_RATIO == 8
MASK_MAX_FEATHER   == 1200
OverrideDen        == 10

\* a variant whose contract amount is limited by maxContract.
computeMaskAdjustments_OwnContract(bounds, featherOverride) ==
    LET minSize    == Max(1, Min(Max(0, bounds.right - bounds.left),
                                 Max(0, bounds.bottom - bounds.top)))
        maxFeather == Max(0, minSize \div 2)
        feather    == IF featherOverride.fin
                        THEN Max(0, Min(Min(RoundDiv(featherOverride.v, OverrideDen),
                                            maxFeather), MASK_MAX_FEATHER))
                        ELSE Max(0, Min(Min(RoundDiv(minSize * MASK_FEATHER_RATIO, 100),
                                            maxFeather), MASK_MAX_FEATHER))
    IN  [contract |-> Min(feather, Max(0, minSize \div 2 - 1)), feather |-> feather]

\* computeMaskAdjustments(bounds, featherOverride).
computeMaskAdjustments(bounds, featherOverride) ==
    LET width      == Max(0, bounds.right - bounds.left)
        height     == Max(0, bounds.bottom - bounds.top)
        minSize    == Max(1, Min(width, height))
        maxFeather == Max(0, minSize \div 2)
        auto       == Max(0, Min(Min(RoundDiv(minSize * MASK_FEATHER_RATIO, 100),
                                     maxFeather), MASK_MAX_FEATHER))
        feather    == IF featherOverride.fin
                        THEN Max(0, Min(Min(RoundDiv(featherOverride.v, OverrideDen),
                                            maxFeather), MASK_MAX_FEATHER))
                        ELSE auto
    IN  [contract |-> feather, feather |-> feather]

\* ------------------------------------------- calls of the pure helpers
\* settings as createPxdClient receives them (seconds; multiplier in units of
\* 1/MultiplierDen) and the parameters of one img2img call.
MinSecondsValues == {NonFinite, Fin(0), Fin(5), Fin(20), Fin(200)}
MaxSecondsValues == {NonFinite, Fin(10), Fin(120), Fin(300)}
MultiplierValues == {NonFinite, Fin(0), Fin(1), Fin(4), Fin(6), Fin(40), Fin(80)}
StepsValues      == {NonFinite, Fin(-5), Fin(0), Fin(1), Fin(10), Fin(20), Fin(50),
                     Fin(100), Fin(150)}
SizeValues       == {NonFinite, Fin(-128), Fin(0), Fin(128), Fin(512), Fin(1024), Fin(2048)}

NoOptions == [multiplier |-> NonFinite, minMs |-> NonFinite, maxMs |-> NonFinite]

TimeoutCalls ==
    [op : {"timeout"}, stage : {"settings"},
     settings : [timeoutMinSeconds : MinSecondsValues,
                 timeoutMaxSeconds : MaxSecondsValues,
                 timeoutMultiplier : MultiplierValues],
     steps : StepsValues, width : SizeValues, height : SizeValues,
     options : {NoOptions}, result : {0}]

\* one addToBatch: the selection's size and form.resolution.
SelectionSides   == {1, 10, 31, 32, 100, 768, 2000, 4000}
ResolutionValues == {0, 128, 768, 2048, 5000}

SizeCalls ==
    [op : {"size"}, stage : {"selection"},
     width : SelectionSides, height : SelectionSides, resolution : ResolutionValues,
     target : {0}, result : {[width |-> 0, height |-> 0]}]

\* one placeImageIntoSelection: the cached selection bounds and options.feather
\* (in tenths).
BoundsValues   == [left : {0}, top : {0},
                   right : {-10, 0, 1, 2, 3, 100, 2401, 5000},
                   bottom : {-10, 0, 1, 2, 3, 100, 2401, 5000}]
FeatherValues  == {NonFinite, Fin(-50), Fin(0), Fin(24), Fin(25), Fin(30), Fin(10000),
                   Fin(20000)}

MaskCalls ==
    [op : {"mask"}, stage : {"placed"},
     bounds : BoundsValues, featherOverride : FeatherValues,
     result : {[contract |-> 0, feather |-> 0]}]

ctlvars == <<batchItems, nextId, status, error, progress, toast, lastImages, pollingRef,
             timers, pollsInFlight, started, run, req, layers, closed, baseURL>>

\* createPxdClient(settings): the client holds the timeoutOptions.
CreatePxdClient ==
    /\ calc.op = "timeout" /\ calc.stage = "settings"
    /\ calc' = [calc EXCEPT !.stage = "client", !.options = timeoutOptions(calc.settings)]
    /\ UNCHANGED ctlvars

\* client.img2img(params): the timeout of the generate request.
Img2ImgTimeout ==
    /\ calc.op = "timeout" /\ calc.stage = "client"
    /\ calc' = [calc EXCEPT !.stage = "done",
                            !.result = computeDynamicTimeout(calc.steps, calc.width,
                                                             calc.height, calc.options)]
    /\ UNCHANGED ctlvars

\* addToBatch: target = clampNumber(form.resolution, 128, 2048), then the
\* override size of the item.
AddToBatchSize ==
    /\ calc.op = "size" /\ calc.stage = "selection"
    /\ LET target == clampNumber(calc.resolution, MIN_RESOLUTION, MAX_RESOLUTION)
       IN  calc' = [calc EXCEPT !.stage = "done", !.target = target,
                                !.result = computeOverrideSize(calc.width, calc.height, target)]
    /\ UNCHANGED ctlvars

\* placeImageIntoSelection: adjustSelectionForMask resolves contract and feather.
AdjustSelectionForMask ==
    /\ calc.op = "mask" /\ calc.stage = "placed"
    /\ calc' = [calc EXCEPT !.stage = "done",
                            !.result = computeMaskAdjustments(calc.bounds, calc.featherOverride)]
    /\ UNCHANGED ctlvars

InitCalc ==
    /\ batchItems = <<>>
    /\ nextId = 1
    /\ status = "idle"
    /\ error = NoError
    /\ progress = 0
    /\ toast = NoToast
    /\ lastImages = 0
    /\ pollingRef = 0
    /\ timers = {}
    /\ pollsInFlight = 0
    /\ started = 0
    /\ run = [r \in Runs |-> NoRun]
    /\ req = [r \in Runs |-> NoReq]
    /\ layers = {}
    /\ closed = {}
    /\ baseURL = "http://sd"
    /\ calc \in TimeoutCalls \cup SizeCalls \cup MaskCalls

NextCalc ==
    \/ CreatePxdClient
    \/ Img2ImgTimeout
    \/ AddToBatchSize
    \/ AdjustSelectionForMask

SpecCalc == InitCalc /\ [][NextCalc]_vars

\* ================================================================= claims
\* a step in which run r leaves its try block through catch (status error).
FailStep(r) ==
    /\ run[r].pc \notin {"idle", "done"}
    /\ run'[r].pc = "done"
    /\ status' = "error"

\* the step in which run r, a batch over three items, gets zero images for item 2.
SecondOfThreeFails(r) ==
    /\ run[r].kind = "batch"
    /\ Len(run[r].items) = 3
    /\ run[r].idx = 2
    /\ run[r].pc = "body"
    /\ FailStep(r)
    /\ error' = Msg("batchNoImages", run[r].items[2].id)

\* a finished run takes no further step and issues no further request.
DoneIsFinal(r) ==
    run[r].pc = "done" =>
        /\ run'[r] = run[r]
        /\ (req'[r].fetch = "pending" => req[r].fetch = "pending")

\* C1 (as stated): when item 2 of a three-item batch returns zero images, the
\* layers of item 1 stay, item 3 is never attempted, and the queue is left
\* holding exactly items 2 and 3.
C1_QueueHoldsUnprocessedOnly ==
    [][\A r \in Runs :
         /\ DoneIsFinal(r)
         /\ SecondOfThreeFails(r) =>
              /\ layers \subseteq layers'
              /\ run[r].items[1].id \in layers'
              /\ batchItems' = SubSeq(run[r].items, 2, 3)]_vars

\* C1 (amended): when item 2 of a three-item batch returns zero images, the
\* layers of item 1 stay in the document, the run ends there (no request or
\* host step for item 3), and the failing run removes nothing from the queue:
\* the queue after the failure is the queue just before it, item 1 included.
C1_FailureKeepsLayersAndQueue ==
    [][\A r \in Runs :
         /\ DoneIsFinal(r)
         /\ SecondOfThreeFails(r) =>
              /\ layers \subseteq layers'
              /\ run[r].items[1].id \in layers'
              /\ batchItems' = batchItems]_vars

\* C1 witness: a batch failed with zero images for item 2 while the queue held
\* items 1, 2, 3; item 1 is placed, item 3 is not, all three are still queued.
C1_Witness ==
    /\ InFlight = {}
    /\ status = "error"
    /\ error = Msg("batchNoImages", 2)
    /\ batchItems = <<[id |-> 1], [id |-> 2], [id |-> 3]>>
    /\ layers = {1}

\* the messages the failure of a batch run at its current position can carry.
BatchFailureMsgs(r) ==
    CASE run[r].pc = "prep" -> {Msg("config", 0)}
      [] run[r].pc = "req"  -> {Msg("http", 0), Msg("network", 0), Msg("timeout", 0)}
      [] run[r].pc = "body" -> {Msg("batchNoImages", CurItem(r)), Msg("parse", 0)}
      [] OTHER              -> {Msg("host", 0)}

\* C2 (as stated): whenever an item of runBatch fails, the queue after runBatch
\* returns is identical to the queue before it started, status is error and
\* error holds the message of the failure.
C2_QueueAsBeforeStart ==
    [][\A r \in Runs :
         (run[r].kind = "batch" /\ FailStep(r)) =>
              /\ batchItems' = run[r].items
              /\ status' = "error"
              /\ error' \in BatchFailureMsgs(r)]_vars

\* C2 (amended): whenever an item of runBatch fails, runBatch itself leaves the
\* queue as it is (same items, same order, nothing removed; it equals the
\* queue at the start unless addToBatch, removeFromBatch, clearBatch or another
\* run changed it meanwhile), status is error and error holds the message of
\* the failure that stopped the batch.
C2_FailureLeavesQueue ==
    [][\A r \in Runs :
         (run[r].kind = "batch" /\ FailStep(r)) =>
              /\ batchItems' = batchItems
              /\ status' = "error"
              /\ error' \in BatchFailureMsgs(r)]_vars

\* C2 witness: a batch over the queue <<1, 2>> placed item 1, was stopped by
\* zero images for item 2, and both items are still queued in order.
C2_Witness ==
    /\ InFlight = {}
    /\ started = 1
    /\ status = "error"
    /\ error = Msg("batchNoImages", 2)
    /\ toast = Toast("error", "batchNoImages", 2)
    /\ layers = {1}
    /\ batchItems = <<[id |-> 1], [id |-> 2]>>

\* C3 (as stated): batch items are processed one at a time: no two items have
\* steps in progress at the same time, over every sequence of operations.
C3_OneItemAtATime ==
    \A r1, r2 \in Runs :
        (/\ run[r1].kind = "batch" /\ run[r1].pc \notin {"idle", "done"}
         /\ run[r2].kind = "batch" /\ run[r2].pc \notin {"idle", "done"}) => r1 = r2

\* C4 (as stated): at most one generation run is in flight.
C4_AtMostOneRun == Cardinality(InFlight) <= 1

\* C5: at most one progress-poll interval timer is live, and it is the one
\* whose handle pollingRef holds.
C5_SingleTimer ==
    /\ Cardinality(timers) <= 1
    /\ \A t \in timers : t.h = pollingRef

\* C5 witness: two runs started a poller one after the other with no stop in
\* between, and one timer is live.
C5_Witness ==
    /\ \A r \in {1, 2} : run[r].pc = "req" /\ req[r].outcome = "none"
    /\ Cardinality(timers) = 1

\* C6 (as stated): the poller of a job is live exactly while its generate call
\* is outstanding: started right before it, stopped when it settles, and
\* stopped by nothing but that job's completion path.
C6_PollerLiveWhileOutstanding ==
    \A r \in Runs :
        (run[r].pc \in {"req", "body"}) <=> (\E t \in timers : t.owner = r)

\* C7 (as stated): progress is 0 whenever no job is in flight.
C7_ProgressZeroWhenIdle == (InFlight = {}) => progress = 0

\* C8 (as stated): progress lies in [0,1] in every reachable state.
C8_ProgressInUnitInterval == progress \in 0..100

\* a step that issues a new request for run r.
NewRequest(r) == req'[r] = [fetch |-> "pending", timer |-> "armed", outcome |-> "none"]

\* C9: every request has exactly one outcome, decided by what comes first.  A
\* timer that fires first makes the request fail with a timeout error; a
\* response after that is discarded and changes neither the outcome nor the
\* controller's status, images or queue; a response that comes first clears
\* the timer, which cannot fire later.
C9_RaceHasOneOutcome ==
    /\ [](\A r \in Runs :
            /\ req[r].outcome \in {"response", "neterr"} => req[r].timer = "cleared"
            /\ req[r].outcome = "timeout" <=> req[r].timer = "fired")
    /\ [][\A r \in Runs :
            /\ (req[r].outcome # "none" /\ req'[r].outcome # req[r].outcome) => NewRequest(r)
            /\ (req[r].outcome = "none" /\ req'[r].timer = "fired") =>
                   /\ req'[r].outcome = "timeout"
                   /\ status' = "error" /\ error' = Msg("timeout", 0)
                   /\ run'[r].pc = "done"
            /\ (req[r].outcome = "timeout" /\ req'[r].fetch # req[r].fetch) =>
                   \/ NewRequest(r)
                   \/ /\ req'[r].outcome = "timeout"
                      /\ UNCHANGED <<status, error, progress, toast, lastImages,
                                     batchItems, run, layers, timers, pollingRef>>]_vars

\* C9 witness: the timer fired first and the response arrived afterwards.
C9_Witness ==
    \E r \in Runs : req[r].outcome = "timeout" /\ req[r].fetch = "resolved"

EmptyBatchNotice == Toast("warning", "emptyBatch", 0)

\* C10: runBatch on an empty queue only raises the warning notice: status,
\* error, progress and the queue are unchanged, no request or host call is
\* issued and no poll timer started.
C10_EmptyBatchIsNoOp ==
    [][(batchItems = <<>> /\ toast' = EmptyBatchNotice /\ toast # EmptyBatchNotice) =>
          UNCHANGED <<batchItems, nextId, status, error, progress, lastImages, pollingRef,
                      timers, pollsInFlight, started, run, req, layers, closed>>]_vars

\* C10 witness: runBatch was invoked on the empty queue of an idle controller.
C10_Witness ==
    /\ toast = EmptyBatchNotice
    /\ batchItems = <<>>
    /\ status = "idle"
    /\ started = 0

\* the step run r takes out of the post-placement stage (groupLayers and
\* moveActiveLayerToTop answered) of its last item, resp. of any item.
LeavesTop(r) == run[r].pc = "top" /\ run'[r] # run[r]

\* C11 (as stated): when every item of a batch returned images and every
\* non-cosmetic step succeeded (the run has reached the post-placement stage of
\* its last item), runBatch ends with the queue empty and status success.
C11_BatchEndsEmptyAndSuccess ==
    [][\A r \in Runs :
         (run[r].kind = "batch" /\ run[r].idx = Len(run[r].items) /\ LeavesTop(r)) =>
              /\ run'[r].pc = "done"
              /\ batchItems' = <<>>
              /\ status' = "success"]_vars

\* C12 (as stated): once the images of a job are placed, a failing cosmetic step
\* (grouping, top-promotion, mask creation) never aborts it: runGeneration ends
\* with status success and runBatch goes on with the next item or ends with
\* status success.
C12_CosmeticFailureNeverAborts ==
    [][\A r \in Runs :
         LeavesTop(r) =>
              \/ run'[r].pc = "done" /\ status' = "success"
              \/ /\ run[r].kind = "batch"
                 /\ run'[r].pc = "prep"
                 /\ run'[r].idx = run[r].idx + 1]_vars

\* C13 (as stated): every item that has left the queue and owns a recorded
\* scratch document/layer triple got closeDocument invoked for that triple,
\* whether it left by removeFromBatch, clearBatch or runBatch's success.
C13_ClosedWhenLeavingQueue ==
    \A i \in 1..(nextId - 1) : i \notin QueuedIds(batchItems) => i \in closed

\* a finished timeout computation on valid steps, width and height.
TimeoutDone  == calc.op = "timeout" /\ calc.stage = "done"
ValidTimeoutCall ==
    /\ TimeoutDone
    /\ calc.steps.fin /\ calc.steps.v > 0
    /\ calc.width.fin /\ calc.width.v > 0
    /\ calc.height.fin /\ calc.height.v > 0

\* the bounds as the specification defines them: the configured minimum
\* clamped to at least 5000 ms, the configured maximum clamped to at least that.
ConfiguredMinMs(options) ==
    Max(5000, IF options.minMs.fin THEN options.minMs.v ELSE 20000)
ConfiguredMaxMs(options) ==
    Max(ConfiguredMinMs(options), IF options.maxMs.fin THEN options.maxMs.v ELSE 120000)

\* C15 (as stated): for valid steps, width and height and all timeout options,
\* computeDynamicTimeout lies within [minMs, maxMs], minMs being the configured
\* minimum clamped to at least 5000 ms and maxMs the configured maximum clamped
\* to at least minMs.
C15_TimeoutWithinConfiguredBounds ==
    ValidTimeoutCall =>
        /\ calc.result >= ConfiguredMinMs(calc.options)
        /\ calc.result <= ConfiguredMaxMs(calc.options)

\* C16 (as stated): for settings with timeoutMaxSeconds >= timeoutMinSeconds >= 5
\* and valid steps, width and height, the timeout of a generate request is at
\* most timeoutMaxSeconds and at least timeoutMinSeconds (in ms).
C16_TimeoutHonoursOperatorCeiling ==
    (/\ ValidTimeoutCall
     /\ calc.settings.timeoutMinSeconds.fin /\ calc.settings.timeoutMaxSeconds.fin
     /\ calc.settings.timeoutMinSeconds.v >= 5
     /\ calc.settings.timeoutMaxSeconds.v >= calc.settings.timeoutMinSeconds.v) =>
        /\ calc.result <= calc.settings.timeoutMaxSeconds.v * 1000
        /\ calc.result >= calc.settings.timeoutMinSeconds.v * 1000

ValidSteps == {s \in StepsValues : s.fin /\ s.v > 0}
ValidSizes == {w \in SizeValues : w.fin /\ w.v > 0}
FiniteMultipliers == {m \in MultiplierValues : m.fin}

\* C17: for valid steps, width and height, computeDynamicTimeout does not
\* decrease when steps grows, when width*height grows, or when the multiplier
\* grows, the other inputs and the bounds being the same.
C17_TimeoutMonotone ==
    ValidTimeoutCall =>
        /\ \A s \in ValidSteps :
             s.v >= calc.steps.v =>
               computeDynamicTimeout(s, calc.width, calc.height, calc.options) >= calc.result
        /\ \A w \in ValidSizes, h \in ValidSizes :
             w.v * h.v >= calc.width.v * calc.height.v =>
               computeDynamicTimeout(calc.steps, w, h, calc.options) >= calc.result
        /\ \A m \in FiniteMultipliers :
             (calc.options.multiplier.fin /\ m.v >= calc.options.multiplier.v) =>
               computeDynamicTimeout(calc.steps, calc.width, calc.height,
                                     [calc.options EXCEPT !.multiplier = m]) >= calc.result

\* C17 witness: a computed timeout strictly between its bounds, which more
\* steps, a larger area and a larger multiplier each raise.
C17_Witness ==
    /\ ValidTimeoutCall
    /\ calc.steps = Fin(20) /\ calc.width = Fin(512) /\ calc.height = Fin(512)
    /\ calc.options.multiplier = Fin(4)
    /\ calc.result = 25000
    /\ computeDynamicTimeout(Fin(50), calc.width, calc.height, calc.options) > calc.result
    /\ computeDynamicTimeout(calc.steps, Fin(1024), calc.height, calc.options) > calc.result
    /\ computeDynamicTimeout(calc.steps, calc.width, calc.height,
                             [calc.options EXCEPT !.multiplier = Fin(6)]) > calc.result

C19_TimeoutFallback ==
    (/\ TimeoutDone
     /\ \/ ~calc.steps.fin \/ ~calc.width.fin \/ ~calc.height.fin
        \/ calc.steps.v <= 0 \/ calc.width.v <= 0 \/ calc.height.v <= 0) =>
        calc.result = 20000

\* C19 witness: zero steps with a large area, multiplier 10 and a configured
\* minimum of 200 s still give the fallback.
C19_Witness ==
    /\ TimeoutDone
    /\ calc.steps = Fin(0) /\ calc.width = Fin(2048) /\ calc.height = Fin(2048)
    /\ calc.options = [multiplier |-> Fin(40), minMs |-> Fin(200000), maxMs |-> Fin(300000)]
    /\ calc.result = 20000

\* a finished override-size computation of addToBatch.
SizeDone == calc.op = "size" /\ calc.stage = "done"

\* C14 (as stated): for every selection width and height >= 1 and every target
\* in [128, 2048], the override size is at most the selection in each dimension
\* (no upscaling), at most the target in each dimension, and keeps the
\* selection's width:height ratio within rounding; 2000x2000 with target 768
\* gives 768x768.
C14_NeverUpscales ==
    SizeDone =>
        /\ calc.target >= 128 /\ calc.target <= 2048
        /\ calc.result.width <= calc.width
        /\ calc.result.height <= calc.height
        /\ calc.result.width <= calc.target
        /\ calc.result.height <= calc.target
        /\ LET d == calc.result.width * calc.height - calc.result.height * calc.width
           IN  2 * (IF d >= 0 THEN d ELSE 0 - d) <= calc.width + calc.height
        /\ (calc.width = 2000 /\ calc.height = 2000 /\ calc.target = 768) =>
               calc.result = [width |-> 768, height |-> 768]

\* a finished computeMaskAdjustments call.
MaskDone == calc.op = "mask" /\ calc.stage = "done"

\* minSize and the upper limit of the feather, as the specification gives them.
MaskMinSize(b) == Max(1, Min(b.right - b.left, b.bottom - b.top))
MaskLimit(b)   == Min(MaskMinSize(b) \div 2, 1200)

\* C20 (as stated): feather = clamp(value, 0, min(floor(minSize/2), 1200)) with
\* value = round(minSize * 0.08) without a finite override, else the override
\* itself, and contract = feather.  (Compared in tenths.)
C20_FeatherIsClampedOverride ==
    MaskDone =>
        LET value10 == IF calc.featherOverride.fin THEN calc.featherOverride.v
                       ELSE 10 * ((16 * MaskMinSize(calc.bounds) + 100) \div 200)
        IN  /\ 10 * calc.result.feather
                 = Min(10 * MaskLimit(calc.bounds), Max(0, value10))
            /\ calc.result.contract = calc.result.feather

\* C20 (amended): feather = clamp(value, 0, min(floor(minSize/2), 1200)) with
\* minSize = max(1, min(width, height)) and value = round(minSize * 0.08)
\* without a finite override, else the override rounded to the nearest integer
\* (Math.round); contract = feather.  100x100 gives 8 without override and 50
\* with override 1000.
C20_FeatherIsClampedRoundedOverride ==
    MaskDone =>
        LET value == IF calc.featherOverride.fin
                       THEN (2 * calc.featherOverride.v + 10) \div 20
                       ELSE (16 * MaskMinSize(calc.bounds) + 100) \div 200
        IN  /\ calc.result.feather = Min(MaskLimit(calc.bounds), Max(0, value))
            /\ calc.result.contract = calc.result.feather
            /\ (calc.bounds.right = 100 /\ calc.bounds.bottom = 100) =>
                   /\ ~calc.featherOverride.fin => calc.result.feather = 8
                   /\ calc.featherOverride = Fin(10000) => calc.result.feather = 50

\* C20 witness: a 100x100 selection with the override 1000 resolves to 50/50.
C20_Witness ==
    /\ MaskDone
    /\ calc.bounds = [left |-> 0, top |-> 0, right |-> 100, bottom |-> 100]
    /\ calc.featherOverride = Fin(10000)
    /\ calc.result = [contract |-> 50, feather |-> 50]

\* ------------------------------------------------------------------ C22
ConfigError == Msg("config", 0)
NoSelectionError == Msg("noSelection", 0)

\* the run r ends in this step.
RunEnds(r) == run[r].pc \notin {"idle", "done"} /\ run'[r].pc = "done"

\* with no endpoint configured nothing is sent and nothing is left running: no
\* generate request, no progress query, no poll timer, no placed layer.
NothingAttempted ==
    /\ \A r \in Runs : req'[r] = NoReq
    /\ pollsInFlight' = 0
    /\ timers' = {}
    /\ pollingRef' = 0
    /\ layers' = {}

\* C22 as stated: with the endpoint unset, runGeneration and runBatch issue no
\* request, leave no poll timer, and every run ends with status error and the
\* configuration error message.
C22_UnsetEndpointConfigError ==
    [][baseURL = "" =>
         /\ NothingAttempted
         /\ \A r \in Runs : RunEnds(r) => status' = "error" /\ error' = ConfigError]_vars

\* C22 amended: with the endpoint unset, runGeneration and runBatch issue no
\* request, leave no poll timer, and every run ends with status error; the
\* message is the configuration error, except that a runGeneration that finds
\* no selection ends with the no-selection error (the selection is read first).
C22_UnsetEndpointNothingAttempted ==
    [][baseURL = "" =>
         /\ NothingAttempted
         /\ \A r \in Runs :
              RunEnds(r) =>
                /\ status' = "error"
                /\ toast'.type = "error"
                /\ \/ error' = ConfigError
                   \/ run[r].kind = "gen" /\ run[r].pc = "sel" /\ error' = NoSelectionError]_vars

\* C22 witness: with the endpoint unset a runBatch ended with the
\* configuration error.
C22_Witness ==
    /\ baseURL = ""
    /\ status = "error"
    /\ error = ConfigError
    /\ toast = Toast("error", "config", 0)
    /\ batchItems # <<>>
    /\ \E r \in Runs : run[r].pc = "done"

\* ------------------------------------------------------------------ C23
\* C23: a runGeneration that ends at its selection step for another reason than
\* the endpoint configuration ends with the no-selection error and status
\* error; the step issues no generate request and no progress query, starts no
\* poll timer and places no layer.
C23_NoSelectionFailsBeforeNetwork ==
    [][\A r \in Runs :
         (run[r].kind = "gen" /\ run[r].pc = "sel" /\ RunEnds(r) /\ error' # ConfigError) =>
            /\ error' = NoSelectionError
            /\ toast' = Toast("error", "noSelection", 0)
            /\ status' = "error"
            /\ req[r] = NoReq
            /\ req' = req
            /\ pollsInFlight' = pollsInFlight
            /\ timers' \subseteq timers
            /\ pollingRef' = 0
            /\ layers' = layers]_vars

\* C23 witness: a runGeneration ended with the no-selection error while the
\* endpoint is configured.
C23_Witness ==
    /\ baseURL # ""
    /\ status = "error"
    /\ error = NoSelectionError
    /\ \E r \in Runs : run[r].pc = "done"

\* ------------------------------------------------------------------ C25
\* C25: a run that ends otherwise than in success ends with status error, an
\* error message that is not null and an error toast carrying that message; in
\* every state status = error implies a non-null error; starting a run sets
\* status running and clears error.
C25_FailureIsSurfaced ==
    [][/\ \A r \in Runs :
            (RunEnds(r) /\ status' # "success") =>
               /\ status' = "error"
               /\ error' # NoError
               /\ toast' = Toast("error", error'.kind, error'.item)
       /\ status' = "error" => error' # NoError
       /\ started' # started => (status' = "running" /\ error' = NoError)]_vars

\* C25 witness: every run that could start has ended, the last one with a
\* request timeout that is shown as status, error message and toast.
C25_Witness ==
    /\ started = MaxStarts
    /\ \A r \in Runs : run[r].pc = "done"
    /\ status = "error"
    /\ error = Msg("timeout", 0)
    /\ toast = Toast("error", "timeout", 0)

\* ------------------------------------------------------------------ C28
\* ids of the array run r iterates.
RunItemIds(r) == {run[r].items[i].id : i \in 1..Len(run[r].items)}

\* C28: when a runBatch completes successfully, every queued item it did not
\* process (appended while it ran) is still in the queue.
C28_UnprocessedItemsSurviveSuccess ==
    [][\A r \in Runs :
         (run[r].kind = "batch" /\ RunEnds(r) /\ status' = "success") =>
            (QueuedIds(batchItems) \ RunItemIds(r)) \subseteq QueuedIds(batchItems')]_vars

\* ------------------------------------------------------------------ C29
\* C29: a runBatch never turns to an item that removeFromBatch or clearBatch
\* already took out of the queue (closeDocument was invoked for it): turning to
\* an item is followed by switchToDocument, the generate request and the
\* placement of its results, with no further look at the queue.
C29_RemovedItemsAreSkipped ==
    [][\A r \in Runs :
         (run[r].kind = "batch" /\ run'[r].kind = "batch" /\ run'[r].idx = run[r].idx + 1)
            => run'[r].items[run'[r].idx].id \notin closed]_vars

\* ------------------------------------------------------------------ C30
\* timers fire and host-scripting calls return: the setTimeout callback of an
\* armed request timer runs, and getSelectionPixels, switchToDocument /
\* setSelectionBounds, placeImageIntoSelection and groupLayers /
\* moveActiveLayerToTop answer.  Nothing is assumed of the backend: fetch may
\* never settle and response.json() may never answer.
Fairness ==
    \A r \in Runs :
       /\ WF_vars(TimerFires(r))
       /\ WF_vars(GenSelection(r))
       /\ WF_vars(BatchPrepare(r))
       /\ WF_vars(Place(r))
       /\ WF_vars(Top(r))

SpecLive == Init /\ [][Next]_vars /\ Fairness

\* C30: whenever the status is running, it eventually becomes success or error.
C30_RunningEventuallyEnds ==
    (status = "running") ~> (status \in {"success", "error"})

\* ================================================== the generation form
\* The form is modelled by three of its fields: steps (a number the request
\* clamps), sampler (a string refreshOptions fills when empty) and resolution
\* (the target of the override size).
Fields == {"steps", "sampler", "resolution"}

DEFAULT_FORM == [steps |-> 20, sampler |-> "", resolution |-> 768]

FormValues == [steps : {20, 200}, sampler : {"", "Euler"}, resolution : {768, 4096}]

\* object spread { ...a, ...b }: the keys of both, b's value where b has the key.
Spread(a, b) ==
    [k \in (DOMAIN a) \cup (DOMAIN b) |-> IF k \in DOMAIN b THEN b[k] ELSE a[k]]

\* a preset file: its data.form holds any subset of the fields, or the file has
\* no data.form at all.
PresetForms == {[k \in D |-> v[k]] : D \in SUBSET Fields, v \in FormValues}
NoFile      == [kind |-> "none", form |-> DEFAULT_FORM]
PresetFiles == [kind : {"preset"}, form : PresetForms]
                 \cup {[kind |-> "malformed", form |-> DEFAULT_FORM]}

\* applyPreset's update that keeps the live value of a field the preset omits.
applyPreset_KeepLive(prev, file) == Spread(prev, file.form)

\* applyPreset: setForm(prev => ({ ...prev, ...DEFAULT_FORM, ...file.data.form })).
applyPreset(prev, file) == Spread(Spread(prev, DEFAULT_FORM), file.form)

\* the sampler lists fetchOptions can resolve with.
SamplerLists == {<<>>, <<"DDIM">>, <<"DDIM", "Euler">>}

\* refreshOptions' form update: sampler: prev.sampler || fetched.samplers[0]?.value || "".
FillFromOptions(prev, samplers) ==
    [prev EXCEPT !.sampler = IF @ # "" THEN @
                             ELSE IF Len(samplers) > 0 THEN samplers[1] ELSE ""]

Undefined == "undefined"
MIN_STEPS == 1
MAX_STEPS == 150

\* buildImg2ImgParams(form, baseImage, width, height), for the modelled fields.
buildImg2ImgParams(form, width, height) ==
    [steps   |-> clampNumber(form.steps, MIN_STEPS, MAX_STEPS),
     sampler |-> IF form.sampler # "" THEN form.sampler ELSE Undefined,
     width   |-> width,
     height  |-> height]

\* a runBatch that builds the request from the live form.
BatchRequestParams_LiveForm(item, live) ==
    buildImg2ImgParams(live, item.overrideWidth, item.overrideHeight)

\* runBatch: buildImg2ImgParams(item.form, ..., item.overrideWidth, item.overrideHeight).
BatchRequestParams(item, live) ==
    buildImg2ImgParams(item.form, item.overrideWidth, item.overrideHeight)

\* the selections getSelectionPixels reports to addToBatch.
Selections == {[width |-> 1000, height |-> 500], [width |-> 100, height |-> 100]}

\* addToBatch's item: form: { ...form }, the selection, the override size.
BatchItemOf(form, selection) ==
    LET target == clampNumber(form.resolution, MIN_RESOLUTION, MAX_RESOLUTION)
        size   == computeOverrideSize(selection.width, selection.height, target)
    IN  [kind |-> "item", form |-> Spread(<<>>, form), selection |-> selection,
         overrideWidth |-> size.width, overrideHeight |-> size.height]

NoItem   == [kind |-> "none", form |-> DEFAULT_FORM, selection |-> [width |-> 0, height |-> 0],
             overrideWidth |-> 0, overrideHeight |-> 0]
NoParams == [steps |-> 0, sampler |-> Undefined, width |-> 0, height |-> 0]

\* the form with an empty queue; `adding` is the item of an addToBatch that is
\* waiting for onBatchAddLayer, `file` and `prev` the preset file and the
\* updater's argument of an applyPreset that has just run.
FormCalls ==
    [op : {"form"}, stage : {"panel"}, form : {DEFAULT_FORM}, file : {NoFile},
     prev : {DEFAULT_FORM},
     adding : {NoItem}, item : {NoItem}, params : {NoParams}]

IsForm == calc.op = "form"

\* setFormValue(key, value).
SetFormValue ==
    /\ IsForm
    /\ \E k \in Fields : \E v \in FormValues :
         calc' = [calc EXCEPT !.form = [@ EXCEPT ![k] = v[k]], !.file = NoFile, !.prev = DEFAULT_FORM]
    /\ UNCHANGED ctlvars

\* resetForm().
ResetForm ==
    /\ IsForm
    /\ calc' = [calc EXCEPT !.form = DEFAULT_FORM, !.file = NoFile, !.prev = DEFAULT_FORM]
    /\ UNCHANGED ctlvars

\* applyPreset(fileName), loadPresetFile answered: a file without data.form
\* throws and leaves the form, otherwise the form is replaced.
ApplyPreset ==
    /\ IsForm
    /\ \E file \in PresetFiles :
         calc' = [calc EXCEPT !.file = file, !.prev = calc.form,
                              !.form = IF file.kind = "preset" THEN applyPreset(@, file)
                                       ELSE @]
    /\ UNCHANGED ctlvars

\* refreshOptions(), fetchOptions answered: empty option fields are filled.
RefreshOptions ==
    /\ IsForm
    /\ \E samplers \in SamplerLists :
         calc' = [calc EXCEPT !.form = FillFromOptions(@, samplers), !.file = NoFile, !.prev = DEFAULT_FORM]
    /\ UNCHANGED ctlvars

\* addToBatch up to its await of onBatchAddLayer: the item is built from the
\* form of the invocation and the selection.
AddToBatchBuild ==
    /\ IsForm
    /\ calc.adding = NoItem /\ calc.item = NoItem
    /\ \E selection \in Selections :
         calc' = [calc EXCEPT !.adding = BatchItemOf(calc.form, selection), !.file = NoFile, !.prev = DEFAULT_FORM]
    /\ UNCHANGED ctlvars

\* addToBatch after onBatchAddLayer: setBatchItems(prev => [...prev, item]).
AddToBatchAppend ==
    /\ IsForm
    /\ calc.adding # NoItem
    /\ calc' = [calc EXCEPT !.item = calc.adding, !.adding = NoItem, !.file = NoFile, !.prev = DEFAULT_FORM]
    /\ UNCHANGED ctlvars

\* runBatch builds the request of the queued item.
RunBatchBuildParams ==
    /\ IsForm
    /\ calc.item # NoItem
    /\ calc' = [calc EXCEPT !.params = BatchRequestParams(calc.item, calc.form),
                            !.file = NoFile, !.prev = DEFAULT_FORM]
    /\ UNCHANGED ctlvars

CtlIdle ==
    /\ batchItems = <<>>
    /\ nextId = 1
    /\ status = "idle"
    /\ error = NoError
    /\ progress = 0
    /\ toast = NoToast
    /\ lastImages = 0
    /\ pollingRef = 0
    /\ timers = {}
    /\ pollsInFlight = 0
    /\ started = 0
    /\ run = [r \in Runs |-> NoRun]
    /\ req = [r \in Runs |-> NoReq]
    /\ layers = {}
    /\ closed = {}
    /\ baseURL = "http://sd"

InitForm == CtlIdle /\ calc \in FormCalls

NextForm ==
    \/ SetFormValue
    \/ ResetForm
    \/ ApplyPreset
    \/ RefreshOptions
    \/ AddToBatchBuild
    \/ AddToBatchAppend
    \/ RunBatchBuildParams

SpecForm == InitForm /\ [][NextForm]_vars

\* ------------------------------------------------------------------ C21
\* C21: after applyPreset applied a preset, each field of the form has the
\* preset's value when the preset defines the field and the DEFAULT_FORM value
\* otherwise, whatever the form was before.
C21_PresetReplacesEveryField ==
    (IsForm /\ calc.file.kind = "preset") =>
        /\ DOMAIN calc.form = Fields
        /\ \A k \in Fields :
             calc.form[k] = IF k \in DOMAIN calc.file.form THEN calc.file.form[k]
                            ELSE DEFAULT_FORM[k]

\* C21 witness: a preset that defines only the sampler was applied to a form
\* whose three fields all had other values than the defaults and the preset:
\* steps and resolution are the defaults again.
C21_Witness ==
    /\ IsForm
    /\ calc.file.kind = "preset"
    /\ DOMAIN calc.file.form = {"sampler"}
    /\ calc.prev.steps # DEFAULT_FORM.steps
    /\ calc.prev.resolution # DEFAULT_FORM.resolution
    /\ calc.prev.sampler \notin {DEFAULT_FORM.sampler, calc.file.form.sampler}
    /\ calc.form = [DEFAULT_FORM EXCEPT !.sampler = calc.file.form.sampler]

\* ------------------------------------------------------------------ C27
\* C27: a queued item is never changed by a later step (setFormValue,
\* resetForm, applyPreset, refreshOptions, building the request), it holds the
\* override size computed from its own form and selection, and runBatch's
\* request is built from the item's form and override size.
C27_QueuedItemIsFrozen ==
    [][IsForm =>
         /\ calc.item # NoItem => calc'.item = calc.item
         /\ calc'.item # NoItem =>
              calc'.item = BatchItemOf(calc'.item.form, calc'.item.selection)
         /\ calc'.params # calc.params =>
              calc'.params = buildImg2ImgParams(calc.item.form, calc.item.overrideWidth,
                                                calc.item.overrideHeight)]_vars

\* C27 witness: the request of an item was built after the live form had
\* changed in every modelled field, and differs from what the live form gives.
C27_Witness ==
    /\ IsForm
    /\ calc.item # NoItem
    /\ \A k \in Fields : calc.form[k] # calc.item.form[k]
    /\ calc.params = buildImg2ImgParams(calc.item.form, calc.item.overrideWidth,
                                        calc.item.overrideHeight)
    /\ calc.params # buildImg2ImgParams(calc.form, calc.item.overrideWidth,
                                        calc.item.overrideHeight)

\* =================================================== the option catalog
\* What a sub-fetch of fetchOptions settles with: it fails (network error,
\* timeout, status other than 2xx, body that is not JSON), or gives a JSON
\* value: an array of items, an object (items: Object.values(...).flat()), or
\* null.  An item is an object with string properties, or a string.
Failed          == [kind |-> "fail", items |-> <<>>]
Null            == [kind |-> "null", items |-> <<>>]
Arr(items)      == [kind |-> "array", items |-> items]
ObjectOf(items) == [kind |-> "object", items |-> items]
Obj(props)      == [type |-> "object", props |-> props]
Str(text)       == [type |-> "string", props |-> [text |-> text]]

\* String.prototype.trim, for the modelled strings.
Trim(text) == IF text = " " THEN "" ELSE text

\* String(item[key] ?? "").
Prop(props, key) == IF key \in DOMAIN props THEN props[key] ELSE ""

\* extractLabel(item, keys): the first key holding a non-blank string, trimmed.
RECURSIVE extractLabel(_, _)
extractLabel(props, keys) ==
    IF keys = <<>> THEN ""
    ELSE IF Trim(Prop(props, Head(keys))) # "" THEN Trim(Prop(props, Head(keys)))
    ELSE extractLabel(props, Tail(keys))

\* one item of normalizeOptions; valueKey "" stands for an omitted valueKey.
\* (extractLabel(...) || valueKey ? String(...) : "" groups as
\* (extractLabel(...) || valueKey) ? String(...) : "".)
OptionOf(item, labelKeys, valueKey) ==
    LET label == IF extractLabel(item.props, labelKeys) # "" \/ valueKey # ""
                   THEN Prop(item.props, IF valueKey # "" THEN valueKey ELSE labelKeys[1])
                   ELSE ""
        value == IF valueKey # "" /\ valueKey \in DOMAIN item.props
                   THEN item.props[valueKey] ELSE label
    IN  IF item.type # "object" \/ label = "" \/ value = ""
          THEN <<>>
          ELSE <<[label |-> label, value |-> value]>>

\* normalizeOptions(collection, labelKeys, valueKey).
RECURSIVE OptionsOf(_, _, _)
OptionsOf(items, labelKeys, valueKey) ==
    IF items = <<>> THEN <<>>
    ELSE OptionOf(Head(items), labelKeys, valueKey) \o OptionsOf(Tail(items), labelKeys, valueKey)

normalizeOptions(collection, labelKeys, valueKey) ==
    IF collection.kind # "array" THEN <<>> ELSE OptionsOf(collection.items, labelKeys, valueKey)

\* a sub-fetch whose rejection is not caught.
Caught_Rethrow(response, fallback) == response

\* fetchJson(...).catch(() => fallback).
Caught(response, fallback) == IF response.kind = "fail" THEN fallback ELSE response

\* vaePromise: /sdapi/v1/sd-modules when it gives an array, else /sdapi/v1/sd-vae.
vaePromise(rs) ==
    LET viaModules == Caught(rs.sd_modules, Null)
    IN  IF viaModules.kind = "array" THEN viaModules ELSE Caught(rs.sd_vae, Arr(<<>>))

\* controlNetModelsPromise: the first endpoint that gives an array or an object.
ControlNetEndpoints == <<"model_list", "models", "v1_models", "control_types">>

RECURSIVE controlNetModelsFrom(_, _)
controlNetModelsFrom(rs, endpoints) ==
    IF endpoints = <<>> THEN Arr(<<>>)
    ELSE LET result == Caught(rs[Head(endpoints)], Null)
         IN  IF result.kind = "fail" THEN result
             ELSE IF result.kind = "null" THEN controlNetModelsFrom(rs, Tail(endpoints))
             ELSE Arr(result.items)

Categories == {"models", "vaes", "loras", "samplers", "schedulers", "controlNetModels",
               "controlNetModules"}

\* the seven promises handed to Promise.all.
SubFetches(rs) ==
    [models            |-> Caught(rs.sd_models, Arr(<<>>)),
     vaes              |-> vaePromise(rs),
     loras             |-> Caught(rs.loras, Arr(<<>>)),
     samplers          |-> Caught(rs.samplers, Arr(<<>>)),
     schedulers        |-> Caught(rs.schedulers, Arr(<<>>)),
     controlNetModels  |-> controlNetModelsFrom(rs, ControlNetEndpoints),
     controlNetModules |-> Caught(rs.module_list, Arr(<<>>))]

LabelKeys ==
    [models            |-> <<"title", "model_name", "name">>,
     vaes              |-> <<"model_name", "name", "title">>,
     loras             |-> <<"name", "alias">>,
     samplers          |-> <<"name">>,
     schedulers        |-> <<"name", "label">>,
     controlNetModels  |-> <<"model", "name">>,
     controlNetModules |-> <<"module", "name">>]

ValueKey(c) == IF c = "models" THEN "model_name" ELSE ""

EMPTY_OPTIONS == [c \in Categories |-> <<>>]

\* fetchOptions(): Promise.all rejects when one of the promises rejects,
\* otherwise the catalog of the normalised lists.
fetchOptions(rs) ==
    LET subs == SubFetches(rs)
    IN  IF \E c \in Categories : subs[c].kind = "fail"
          THEN [rejected |-> TRUE, catalog |-> EMPTY_OPTIONS]
          ELSE [rejected |-> FALSE,
                catalog  |-> [c \in Categories |->
                                normalizeOptions(subs[c], LabelKeys[c], ValueKey(c))]]

\* what the backend answers on each endpoint.
Responses ==
    [sd_models     : {Failed, Null, Arr(<<Obj([title |-> "A", model_name |-> "a"]),
                                          Obj([title |-> "B"])>>)},
     sd_modules    : {Failed, ObjectOf(<<>>), Arr(<<Obj([model_name |-> "v"])>>)},
     sd_vae        : {Failed, Arr(<<Obj([name |-> "n", model_name |-> "w"])>>)},
     loras         : {Failed, Arr(<<Obj([name |-> "l", alias |-> "x"])>>)},
     samplers      : {Failed, Arr(<<Obj([name |-> "Euler"]), Obj([name |-> " "])>>)},
     schedulers    : {Failed, Arr(<<Obj([name |-> "karras", label |-> "Karras"])>>)},
     model_list    : {Failed, ObjectOf(<<Str("c1")>>), Arr(<<Obj([model |-> "c"])>>)},
     models        : {Failed, Arr(<<>>)},
     v1_models     : {Failed, Arr(<<Obj([name |-> "c3"])>>)},
     control_types : {Failed, Arr(<<Obj([model |-> "c4"]), Str("c5")>>)},
     module_list   : {Failed, ObjectOf(<<Str("canny")>>), Arr(<<Obj([module |-> "canny"])>>)}]

NoOptionsError == "null"

\* one refreshOptions with the endpoint configured.
OptionCalls ==
    [op : {"options"}, stage : {"idle"}, responses : Responses,
     fetched : {[rejected |-> FALSE, catalog |-> EMPTY_OPTIONS]},
     options : {EMPTY_OPTIONS}, optionsError : {NoOptionsError, "stale"},
     optionsLoading : {FALSE}]

\* refreshOptions up to its await: setOptionsLoading(true), setOptionsError(null).
RefreshOptionsBegin ==
    /\ calc.op = "options" /\ calc.stage = "idle"
    /\ calc' = [calc EXCEPT !.stage = "loading", !.optionsLoading = TRUE,
                            !.optionsError = NoOptionsError]
    /\ UNCHANGED ctlvars

\* client.fetchOptions() settles.
FetchOptions ==
    /\ calc.op = "options" /\ calc.stage = "loading"
    /\ calc' = [calc EXCEPT !.stage = "fetched", !.fetched = fetchOptions(calc.responses)]
    /\ UNCHANGED ctlvars

\* refreshOptions after the await: setOptions(fetched), or the catch with
\* setOptionsError(message); finally setOptionsLoading(false).
RefreshOptionsEnd ==
    /\ calc.op = "options" /\ calc.stage = "fetched"
    /\ calc' = [calc EXCEPT !.stage = "done", !.optionsLoading = FALSE,
                            !.options = IF calc.fetched.rejected THEN @
                                        ELSE calc.fetched.catalog,
                            !.optionsError = IF calc.fetched.rejected THEN "rejected"
                                             ELSE @]
    /\ UNCHANGED ctlvars

InitOptions == CtlIdle /\ calc \in OptionCalls

NextOptions ==
    \/ RefreshOptionsBegin
    \/ FetchOptions
    \/ RefreshOptionsEnd

SpecOptions == InitOptions /\ [][NextOptions]_vars

\* ------------------------------------------------------------------ C24
\* the endpoints a category is fetched from.
EndpointsOf(c) ==
    CASE c = "models"            -> {"sd_models"}
      [] c = "vaes"              -> {"sd_modules", "sd_vae"}
      [] c = "loras"             -> {"loras"}
      [] c = "samplers"          -> {"samplers"}
      [] c = "schedulers"        -> {"schedulers"}
      [] c = "controlNetModels"  -> {"model_list", "models", "v1_models", "control_types"}
      [] c = "controlNetModules" -> {"module_list"}

\* a category failed when every endpoint it is fetched from failed.
CategoryFailed(c) == \A e \in EndpointsOf(c) : calc.responses[e] = Failed

\* the list a response of category c gives.
ListOf(c, response) ==
    normalizeOptions(IF response.kind = "object" THEN Arr(response.items) ELSE response,
                     LabelKeys[c], ValueKey(c))

Rect(l, t, r, b) == [left |-> l, top |-> t, right |-> r, bottom |-> b]
Sel(bounds)      == [present |-> TRUE, bounds |-> bounds]
NoSel            == [present |-> FALSE, bounds |-> Rect(0, 0, 0, 0)]

\* the rectangles the user selects.
UserSelections == {Sel(Rect(0, 0, 100, 100)), Sel(Rect(200, 200, 400, 300))}

\* form.maskFeather as runGeneration hands it to the placement, in tenths: the
\* default (20), none, and a value above what the selection allows.
MaskFeathers == {Fin(20 * OverrideDen), Fin(0), Fin(80 * OverrideDen)}

\* the selection after adjustSelectionForMask: selection.contract(contract).
Contracted(bounds, feather) ==
    LET c == computeMaskAdjustments(bounds, feather).contract
    IN  Rect(bounds.left + c, bounds.top + c, bounds.right - c, bounds.bottom - c)

ImportCalls ==
    [op : {"import"}, stage : {"start"}, selection : UserSelections \cup {NoSel},
     feather : MaskFeathers, captured : {NoSel}, n : {0}, used : {<<>>}]

IsImport == calc.op = "import"

\* runGeneration: getSelectionPixels reads doc.selection.bounds; without a
\* selection the run throws, otherwise the request is issued.
ImportGetSelection ==
    /\ IsImport /\ calc.stage = "start"
    /\ calc' = [calc EXCEPT !.captured = calc.selection,
                            !.stage = IF calc.selection.present THEN "request" ELSE "failed"]
    /\ UNCHANGED ctlvars

\* the user changes or drops the selection while the request is outstanding.
HostSelectionChanges ==
    /\ IsImport /\ calc.stage = "request"
    /\ \E selection \in UserSelections \cup {NoSel} :
         /\ selection # calc.selection
         /\ calc' = [calc EXCEPT !.selection = selection]
    /\ UNCHANGED ctlvars

\* the backend answers with n images.
ImportResponse ==
    /\ IsImport /\ calc.stage = "request"
    /\ \E n \in 1..MaxImages : calc' = [calc EXCEPT !.stage = "place", !.n = n]
    /\ UNCHANGED ctlvars

\* one placeImageIntoSelection(image, i + 1, { feather }): cachedBounds is the
\* document's selection at the call; the image is placed, resized and masked
\* at cachedBounds; the selection, contracted for the mask, is set back to
\* cachedBounds by a last setSelectionBounds whose failure is logged.
PlaceImageIntoSelection ==
    /\ IsImport /\ calc.stage = "place"
    /\ LET cachedBounds == calc.selection
       IN  \E restored \in BOOLEAN :
             calc' = [calc EXCEPT
                        !.used = Append(@, cachedBounds),
                        !.selection =
                            IF ~cachedBounds.present \/ restored THEN cachedBounds
                            ELSE Sel(Contracted(cachedBounds.bounds, calc.feather)),
                        !.stage = IF Len(calc.used) + 1 < calc.n THEN "place" ELSE "done"]
    /\ UNCHANGED ctlvars

InitImport == CtlIdle /\ calc \in ImportCalls

NextImport ==
    \/ ImportGetSelection
    \/ HostSelectionChanges
    \/ ImportResponse
    \/ PlaceImageIntoSelection

SpecImport == InitImport /\ [][NextImport]_vars

\* ------------------------------------------------------------------ C26
\* C26: every image of a runGeneration job is placed, resized and masked at
\* the selection bounds getSelectionPixels captured at the start of the run.
C26_PlacedAtCapturedBounds ==
    IsImport => \A i \in 1..Len(calc.used) : calc.used[i] = calc.captured
====
